---- MODULE Spec2Model ----
(***************************************************************************)
(* Model of fin-scenario-map's backend core:                               *)
(*   - workflow/runner.py, workflow/nodes.py, workflow/graph.py: the       *)
(*     two-node scenario workflow with bounded retries (specification      *)
(*     Spec);                                                              *)
(*   - historical_matcher.py, chroma_store.py: the historical case         *)
(*     matcher with its one-time tier selection (specification             *)
(*     MatcherSpec), sync_collection alone (StoreSpec), concurrent first   *)
(*     calls into the matcher (ConcSpec) and a replace of the collection   *)
(*     next to queries (ReplaceSpec);                                      *)
(*   - embeddings.py, embeddings_hf.py: the embedding providers            *)
(*     (specification EmbedSpec).                                          *)
(*                                                                         *)
(* Python values are modelled as tagged records [kind, val]: kind "absent" *)
(* is a key that is not in a dict, "none" is None, "str" a string, "int"   *)
(* a non-zero number, "list" a list.  A string is the sequence of its      *)
(* characters; a multi-character token that no operation looks into        *)
(* ("Market", an exception text) is one element of the sequence.           *)
(***************************************************************************)
EXTENDS Integers, Sequences, FiniteSets, TLC

VARIABLES
    \* ---- workflow (runner.py) ----
    pc,            \* position of run_scenario_workflow
    input,         \* input_data: [name, description, riskType]
    attempt,       \* loop variable of `for attempt in range(MAX_RETRIES + 1)`
    last_state,    \* runner's last_state (WorkflowState)
    gstate,        \* the state the graph works on during one invoke
    result,        \* the dict returned to the caller
    \* ---- workflow history (observation only) ----
    outcomes,      \* per finished invocation: "ok" | "error" | "raised"
    nodeTrace,     \* per node run: <<invocation number, node, status, what raised in it>>
    matcherCalls,  \* calls of find_similar_cases made by orchestrator
    recCalls,      \* calls of generate_recommendations made by orchestrator
    \* ---- matcher (historical_matcher.py, chroma_store.py) ----
    session,       \* the module globals of historical_matcher
    collection,    \* the persistent collection of chroma_store
    call,          \* the last call made into the matcher and what it returned
    \* ---- matcher history (observation only) ----
    loadEnv,       \* <<facts>> once a load has run: what that load met
    builds,        \* how many times the body of _load_documents has run
    calls,         \* how many calls have been made into the matcher
    \* ---- local embedding provider (embeddings_hf.py) ----
    hf_model,      \* the module global _model: "none" | "loaded"
    modelLoads,    \* observation: how many times a model load was attempted
    \* ---- concurrent callers of the matcher and of the store ----
    threads        \* per caller: its position in the call it is making

wfVars == <<pc, input, attempt, last_state, gstate, result,
            outcomes, nodeTrace, matcherCalls, recCalls>>

mVars == <<session, collection, call, loadEnv, builds, calls>>

eVars == <<hf_model, modelLoads>>

cVars == <<threads>>

vars == <<wfVars, mVars, eVars, cVars>>

-----------------------------------------------------------------------------
(* Program constants *)

MAX_RETRIES == 2
TOP_K_DEFAULT == 5
BATCH_SIZE == 50        \* embeddings.py: chunk size of the cloud batch call
HF_BATCH_SIZE == 32     \* embeddings_hf.py: default batch_size of the local batch call

(* Bounds of the model *)
MaxRecs == 1            \* recommendations returned by the generator: 0..MaxRecs
MaxCases == 1           \* cases the matcher returns to the workflow: 0..MaxCases
MaxNameLen == 2         \* characters of an input name
MaxDocs == 2            \* documents of a corpus
MaxTopK == 2            \* top_k of a query: -1..MaxTopK, and TOP_K_DEFAULT
MaxCalls == 2           \* calls made into the matcher in one process
MaxTexts == 3           \* input texts of a batch embedding call
MaxBatch == 2           \* batch_size of a batch embedding call: 1..MaxBatch, and the default

-----------------------------------------------------------------------------
(* Python values *)

Absent == [kind |-> "absent", val |-> <<>>]
PyNone == [kind |-> "none", val |-> <<>>]
PyStr(s) == [kind |-> "str", val |-> s]
PyInt == [kind |-> "int", val |-> <<>>]
PyList(l) == [kind |-> "list", val |-> l]

\* Python truthiness of `d.get(key)`: absent key, None, "" and [] are falsy.
Truthy(v) == \/ v.kind = "int"
             \/ v.kind \in {"str", "list"} /\ v.val # <<>>

\* `v or default`
PyOr(v, default) == IF Truthy(v) THEN v ELSE default

\* What a call does: return val, or raise an exception with text msg.
Returns(v) == [raises |-> FALSE, msg |-> <<>>, val |-> v]
Raises(m) == [raises |-> TRUE, msg |-> m, val |-> <<>>]

SpaceChar == " "
WhiteChars == {SpaceChar, "\t"}

\* A strip that strips nothing.
StripNothing(s) == s

\* str.strip(): drop leading and trailing whitespace.
Strip(s) ==
    LET keep == {i \in 1..Len(s) : s[i] \notin WhiteChars}
        lo == CHOOSE i \in keep : \A j \in keep : i <= j
        hi == CHOOSE i \in keep : \A j \in keep : j <= i
    IN  IF keep = {} THEN <<>> ELSE SubSeq(s, lo, hi)

IsPrefix(s, t) == Len(s) <= Len(t) /\ SubSeq(t, 1, Len(s)) = s

SeqsUpTo(S, n) == UNION {[1..k -> S] : k \in 0..n}

-----------------------------------------------------------------------------
(* Messages and tokens *)

NameRequired == <<"Scenario name is required">>
NoStripAttr == <<"'int' object has no attribute 'strip'">>
PreviousError == <<"previous error">>
ExcText == <<"exc">>
\* str(e) of an exception the environment raises: some exceptions have an
\* empty text (AssertionError(), TimeoutError()).
ExcMsgs == {<<>>, ExcText}
NowTs == <<"utcnow-date", "T", "utcnow-time", "Z">>
ScenarioId == <<"scn-1">>

Digit == <<"0", "1", "2", "3", "4", "5", "6", "7", "8", "9">>

\* str(n) / f"{n}" of a non-negative integer: its decimal digits.
RECURSIVE DecStr(_)
DecStr(n) == IF n < 10 THEN <<Digit[n + 1]>>
             ELSE DecStr(n \div 10) \o <<Digit[(n % 10) + 1]>>

-----------------------------------------------------------------------------
(* chroma_store.py: the persistent collection "historical_cases".          *)
(* A collection is [exists, provider, rows]: whether it exists, which      *)
(* provider made the vectors it holds ("" when it holds none), and its     *)
(* rows [id, name] in insertion order.                                     *)

NoCollection == [exists |-> FALSE, provider |-> "", rows |-> <<>>]
EmptyCollection == [exists |-> TRUE, provider |-> "", rows |-> <<>>]

\* What can go wrong in one sync_collection call:
\*   "ok"           nothing
\*   "client_fail"  get_client() raises (line 61)
\*   "keep_fail"    delete_collection raises and is swallowed (62-65), then
\*                  create_collection raises (66)
\*   "create_fail"  the collection is deleted, then create_collection raises
\*   "add_fail"     deleted and created again, then coll.add raises (67)
SyncOutcomes == {"ok", "client_fail", "keep_fail", "create_fail", "add_fail"}

\* SyncCollection that reports success although coll.add raised.
SyncCollectionSwallowsAdd(coll, ids, embeddings, metadatas, outcome) ==
    IF ids = <<>> \/ Len(ids) # embeddings.count \/ Len(ids) # Len(metadatas)
    THEN [ok |-> FALSE, coll |-> coll]
    ELSE CASE outcome = "ok" ->
                 [ok |-> TRUE,
                  coll |-> [exists |-> TRUE,
                            provider |-> embeddings.provider,
                            rows |-> [i \in 1..Len(ids) |->
                                         [id |-> ids[i], name |-> metadatas[i].name,
                                          by |-> embeddings.provider]]]]
           [] outcome = "client_fail" -> [ok |-> FALSE, coll |-> coll]
           [] outcome = "keep_fail" -> [ok |-> FALSE, coll |-> coll]
           [] outcome = "create_fail" -> [ok |-> FALSE, coll |-> NoCollection]
           [] outcome = "add_fail" -> [ok |-> TRUE, coll |-> EmptyCollection]

\* SyncCollection that adds to the collection it finds instead of replacing it.
SyncCollectionAppend(coll, ids, embeddings, metadatas, outcome) ==
    IF ids = <<>> \/ Len(ids) # embeddings.count \/ Len(ids) # Len(metadatas)
    THEN [ok |-> FALSE, coll |-> coll]
    ELSE IF outcome = "ok"
    THEN [ok |-> TRUE,
          coll |-> [exists |-> TRUE,
                    provider |-> embeddings.provider,
                    rows |-> coll.rows \o
                             [i \in 1..Len(ids) |->
                                 [id |-> ids[i], name |-> metadatas[i].name,
                                  by |-> embeddings.provider]]]]
    ELSE [ok |-> FALSE, coll |-> coll]

\* chroma_store.py:49-72.  embeddings is [provider, count]; a row of the
\* collection records which provider produced its vector (by).
SyncCollection(coll, ids, embeddings, metadatas, outcome) ==
    IF ids = <<>> \/ Len(ids) # embeddings.count \/ Len(ids) # Len(metadatas)
    THEN [ok |-> FALSE, coll |-> coll]
    ELSE CASE outcome = "ok" ->
                 [ok |-> TRUE,
                  coll |-> [exists |-> TRUE,
                            provider |-> embeddings.provider,
                            rows |-> [i \in 1..Len(ids) |->
                                         [id |-> ids[i], name |-> metadatas[i].name,
                                          by |-> embeddings.provider]]]]
           [] outcome = "client_fail" -> [ok |-> FALSE, coll |-> coll]
           [] outcome = "keep_fail" -> [ok |-> FALSE, coll |-> coll]
           [] outcome = "create_fail" -> [ok |-> FALSE, coll |-> NoCollection]
           [] outcome = "add_fail" -> [ok |-> FALSE, coll |-> EmptyCollection]

\* chroma_store.py:37-46
GetOrCreateCollection(coll) == IF coll.exists THEN coll ELSE EmptyCollection

-----------------------------------------------------------------------------
(* Scores.  A similarity score or a cosine distance x is held as the       *)
(* integer 200 * x, so that 0.5% steps exist and rounding has work to do.  *)

ScoreOne == 200

Clamp(lo, x, hi) == IF x < lo THEN lo ELSE IF x > hi THEN hi ELSE x

\* int(round(score * 100)): Python rounds halves to the even neighbour.
PyRoundPct(u) ==
    LET fl == IF u >= 0 THEN u \div 2 ELSE -((-u + 1) \div 2)
    IN  IF u % 2 = 0 THEN fl
        ELSE IF fl % 2 = 0 THEN fl ELSE fl + 1

\* f"{score_pct}%"
PctStr(p) == (IF p < 0 THEN <<"-">> \o DecStr(-p) ELSE DecStr(p)) \o <<"%">>

\* The integer a percentage string stands for.
RECURSIVE DigitsVal(_)
DigitsVal(s) ==
    IF s = <<>> THEN 0
    ELSE 10 * DigitsVal(SubSeq(s, 1, Len(s) - 1))
         + (CHOOSE d \in 0..9 : Digit[d + 1] = s[Len(s)])
PctVal(sim) ==
    LET body == SubSeq(sim, 1, Len(sim) - 1)
    IN  IF body # <<>> /\ body[1] = "-" THEN -DigitsVal(Tail(body)) ELSE DigitsVal(body)

\* The orders a sort by key can give: all permutations of 1..n that are
\* ascending in key.  Equal keys come in any order: neither numpy's argsort
\* nor the vector index says which.
AscendingOrders(key) ==
    LET n == Len(key)
    IN  {p \in [1..n -> 1..n] :
            /\ \A i, j \in 1..n : i # j => p[i] # p[j]
            /\ \A i \in 1..(n - 1) : key[p[i]] <= key[p[i + 1]]}

\* Python a[start:] for any integer start.
SliceFrom(a, start) ==
    LET n == Len(a)
        from == IF start < 0 THEN (IF n + start < 0 THEN 0 ELSE n + start)
                ELSE (IF start > n THEN n ELSE start)
    IN  SubSeq(a, from + 1, n)

\* Python a[:stop] for any integer stop.
SliceTo(a, stop) ==
    LET n == Len(a)
        to == IF stop < 0 THEN (IF n + stop < 0 THEN 0 ELSE n + stop)
              ELSE (IF stop > n THEN n ELSE stop)
    IN  SubSeq(a, 1, to)

\* a[::-1]
Reverse(a) == [i \in 1..Len(a) |-> a[Len(a) + 1 - i]]

\* chroma_store.py:75-116.  env.dist[i] is the cosine distance of row i of
\* the collection to the query; env.fail is whether the client, count() or
\* query() raises; env.order the order in which the index returns the rows
\* (nearest first).
\* The result is [coll, out, scored]: the collection afterwards, the list
\* returned, and for each returned item the similarity 1 - distance it has.
QuerySimilar(coll, query_embedding, n_results, env) ==
    IF query_embedding = <<>> \/ n_results < 1
    THEN [coll |-> coll, out |-> <<>>, scored |-> <<>>]
    ELSE IF env.fail
    THEN [coll |-> coll, out |-> <<>>, scored |-> <<>>]
    ELSE LET c == GetOrCreateCollection(coll)
             count == Len(c.rows)
             n == IF n_results < count THEN n_results ELSE count
             rows == SliceTo(env.order, n)
         IN  [coll |-> c,
              out |-> [i \in 1..Len(rows) |->
                          LET dist == env.dist[rows[i]]
                              similarity == Clamp(0, ScoreOne - dist, ScoreOne)
                              score_pct == Clamp(0, PyRoundPct(similarity), 100)
                              doc == c.rows[rows[i]]
                              name == Strip(IF doc.name # <<>> THEN doc.name ELSE doc.id)
                          IN  [id |-> doc.id,
                               name |-> IF name # <<>> THEN name ELSE <<"-">>,
                               similarity |-> PctStr(score_pct)]],
              scored |-> [i \in 1..Len(rows) |-> ScoreOne - env.dist[rows[i]]]]

-----------------------------------------------------------------------------
(* historical_matcher.py: the matcher session (the module's globals).      *)
(* vectorizer is whether _vectorizer and _corpus_matrix are set; the       *)
(* matrix has one row per document of corpus_meta.                         *)

\* historical_matcher.py:22-30
UnloadedSession ==
    [loaded |-> FALSE,
     corpus_meta |-> <<>>,
     corpus_embeddings |-> FALSE,
     use_vector_path |-> FALSE,
     use_chroma |-> FALSE,
     vector_backend |-> "",
     groq_api_key |-> <<>>,
     vectorizer |-> FALSE]

\* re.sub(r"\s+", " ", s): every run of whitespace becomes one space.
RECURSIVE CollapseSpaces(_)
CollapseSpaces(s) ==
    IF s = <<>> THEN <<>>
    ELSE IF s[1] \in WhiteChars
    THEN LET rest == CollapseSpaces(Tail(s))
         IN  IF rest # <<>> /\ rest[1] = SpaceChar THEN rest ELSE <<SpaceChar>> \o rest
    ELSE <<s[1]>> \o CollapseSpaces(Tail(s))

\* historical_matcher.py:36-39.  s is a Python value: `s or ""`.
Truncate(s, max_chars) ==
    LET t == CollapseSpaces(Strip(PyOr(s, PyStr(<<>>)).val))
    IN  IF Len(t) > max_chars THEN SubSeq(t, 1, max_chars) ELSE t

\* historical_matcher.py:32
MAX_TEXT_CHARS == 5000

\* " ".join(parts), as the f-strings of db.py:401 and 420 do.
RECURSIVE JoinSp(_)
JoinSp(parts) ==
    IF parts = <<>> THEN <<>>
    ELSE IF Len(parts) = 1 THEN parts[1]
    ELSE parts[1] \o <<SpaceChar>> \o JoinSp(Tail(parts))

\* db.py:397-403 and 416-421: the fields are stripped one by one, joined
\* by single spaces, stripped, replaced by " " when empty, and cut at 5000.
DbText(fields) ==
    LET t == Strip(JoinSp([i \in 1..Len(fields) |-> Strip(fields[i])]))
        u == IF t = <<>> THEN <<SpaceChar>> ELSE t
    IN  SliceTo(u, MAX_TEXT_CHARS)

\* The descriptions a stored row can have: none (main.py:163 stores "" for
\* a scenario sent without one), or some text.
Descriptions == {<<>>, <<"d">>}

\* db.py:388-422: documents of the database, reference cases then
\* scenarios; desc is the description of the row.
DbDoc(i, desc) ==
    [id |-> <<"R", Digit[i + 1]>>, name |-> <<"Case">>,
     text |-> DbText(<<<<"Case">>, desc, <<"Credit">>>>)]
DbDocs(descs) == [i \in 1..Len(descs) |-> DbDoc(i, descs[i])]

\* The text of an entry of the JSON file.
FileText == PyStr(<<SpaceChar, "t", SpaceChar, "\t", "x">>)

\* historical_matcher.py:98-105: entry i (from 1) of the JSON file, a dict
\* without id and name.
FileDoc(i) ==
    LET t == Truncate(FileText, MAX_TEXT_CHARS)
    IN  [id |-> <<"HC-00", Digit[i + 1]>>, name |-> <<"Case ", Digit[i + 1]>>,
         text |-> IF t = <<>> THEN <<SpaceChar>> ELSE t]

RECURSIVE FileDocs(_, _)
FileDocs(raw, i) ==
    IF i > Len(raw) THEN <<>>
    ELSE (IF raw[i] = "dict" THEN <<FileDoc(i)>> ELSE <<>>) \o FileDocs(raw, i + 1)

\* A corpus source is [db, file, raw]: db the documents the database
\* returns (<<>> also when it fails); file the state of the JSON file,
\* "missing", "invalid" (not a non-empty list), "raises" (unreadable) or
\* "list"; raw its entries, each a dict or something else.
\* historical_matcher.py:82-105: the corpus a source gives.
CorpusOf(src) ==
    IF src.db # <<>> THEN src.db
    ELSE IF src.file = "list" THEN FileDocs(src.raw, 1)
    ELSE <<>>

\* What the batch embedding call of a provider returns: a list of count
\* vectors, None ("absent"), or an exception ("raise").
Vectors(n) == [kind |-> "list", count |-> n]
NoVectors(k) == [kind |-> k, count |-> 0]

\* historical_matcher.py:118-134 and 147-163: one provider's vectors are
\* checked and persisted.  The result is [ok, coll].
TryPersist(coll, corpus_meta, embs, provider, sync) ==
    IF embs.kind = "list" /\ embs.count = Len(corpus_meta)
    THEN SyncCollection(coll,
                        [i \in 1..Len(corpus_meta) |-> corpus_meta[i].id],
                        [provider |-> provider, count |-> embs.count],
                        [i \in 1..Len(corpus_meta) |-> [name |-> corpus_meta[i].name]],
                        sync)
    ELSE [ok |-> FALSE, coll |-> coll]

\* A load guard that never finds the session loaded.
NeedsLoadAlways(m) == TRUE

\* historical_matcher.py:58: `if _loaded: return`
NeedsLoad(m) == ~m.loaded

\* historical_matcher.py:60-66: the globals at the start of a load; key is
\* settings.groq_api_key.
ResetGlobals(m, key) ==
    [m EXCEPT !.loaded = TRUE,
              !.corpus_meta = <<>>,
              !.corpus_embeddings = FALSE,
              !.use_vector_path = FALSE,
              !.use_chroma = FALSE,
              !.vector_backend = "",
              !.groq_api_key = Strip(key)]

\* A tier selection that builds the lexical index next to the vectors.
SelectVectorWithLexical(m, provider) ==
    [m EXCEPT !.use_vector_path = TRUE,
              !.use_chroma = TRUE,
              !.vector_backend = provider,
              !.vectorizer = TRUE]

\* historical_matcher.py:128-133 and 156-162: the vector tier is selected,
\* and the load returns before the lexical index is built.
SelectVector(m, provider) ==
    [m EXCEPT !.use_vector_path = TRUE,
              !.use_chroma = TRUE,
              !.vector_backend = provider]

\* historical_matcher.py:56-182.  env is what the load meets:
\*   key        settings.groq_api_key
\*   src        the corpus source, see Sources
\*   cloud, local            the batch embedding results
\*   cloudSync, localSync    the outcomes of the two sync_collection calls
\*   tfidf      "ok" or "raise": the TF-IDF fit
\* The result is [m, coll]: the session and the collection afterwards.
LoadDocuments(m, coll, env) ==
    IF ~NeedsLoad(m) THEN [m |-> m, coll |-> coll]
    ELSE
    LET m0 == ResetGlobals(m, env.key)
        failed == [m0 EXCEPT !.vectorizer = FALSE,
                             !.corpus_embeddings = FALSE,
                             !.corpus_meta = <<>>]
        fromFile == env.src.db = <<>>
        corpus == CorpusOf(env.src)
        m1 == [m0 EXCEPT !.corpus_meta = corpus]
        cloud == TryPersist(coll, corpus, env.cloud, "groq", env.cloudSync)
        tryCloud == m0.groq_api_key # <<>> /\ env.cloud.kind # "raise"
        coll1 == IF tryCloud THEN cloud.coll ELSE coll
        local == TryPersist(coll1, corpus, env.local, "hf", env.localSync)
        tryLocal == env.local.kind # "raise"
        coll2 == IF tryLocal THEN local.coll ELSE coll1
    IN  IF fromFile /\ env.src.file \in {"missing", "invalid"}
        THEN [m |-> m0, coll |-> coll]
        ELSE IF fromFile /\ env.src.file = "raises"
        THEN [m |-> failed, coll |-> coll]
        ELSE IF corpus = <<>>
        THEN [m |-> m1, coll |-> coll]
        ELSE IF tryCloud /\ cloud.ok
        THEN [m |-> SelectVector(m1, "groq"),
              coll |-> coll1]
        ELSE IF tryLocal /\ local.ok
        THEN [m |-> SelectVector(m1, "hf"),
              coll |-> coll2]
        ELSE IF env.tfidf = "ok"
        THEN [m |-> [m1 EXCEPT !.vectorizer = TRUE,
                               !.corpus_embeddings = FALSE,
                               !.use_vector_path = FALSE,
                               !.vector_backend = ""],
              coll |-> coll2]
        ELSE [m |-> failed, coll |-> coll2]

\* historical_matcher.py:190-197
VectorStoreStatus(m) ==
    IF m.use_vector_path /\ m.use_chroma
    THEN [vector_store |-> "chromadb",
          embedding_backend |-> IF m.vector_backend # "" THEN m.vector_backend ELSE "-"]
    ELSE IF m.use_vector_path
    THEN [vector_store |-> "in_memory",
          embedding_backend |-> IF m.vector_backend # "" THEN m.vector_backend ELSE "-"]
    ELSE [vector_store |-> "tfidf", embedding_backend |-> ""]

\* historical_matcher.py:257-273 and 287-300: top_indices to match results.
\* sims[i] is the score of document i.
ResultsOf(corpus_meta, sims, top_indices) ==
    [out |-> [i \in 1..Len(top_indices) |->
                 LET meta == corpus_meta[top_indices[i]]
                     score_pct == Clamp(0, PyRoundPct(sims[top_indices[i]]), 100)
                 IN  [id |-> meta.id, name |-> meta.name, similarity |-> PctStr(score_pct)]],
     scored |-> [i \in 1..Len(top_indices) |-> sims[top_indices[i]]]]

\* TfidfQuery without the reversal `[::-1]` of the argsort slice.
TfidfQueryAscending(m, top_k, env) ==
    IF ~m.vectorizer THEN [out |-> Returns(<<>>), scored |-> <<>>]
    ELSE IF env.tfidfFail THEN [out |-> Raises(ExcText), scored |-> <<>>]
    ELSE LET top_indices == SliceFrom(env.order, -top_k)
             r == ResultsOf(m.corpus_meta, env.key, top_indices)
         IN  [out |-> Returns(r.out), scored |-> r.scored]

\* historical_matcher.py:282-300: the TF-IDF path.  env.key[i] is the cosine
\* similarity of document i to the query, env.order what argsort returns.
TfidfQuery(m, top_k, env) ==
    IF ~m.vectorizer THEN [out |-> Returns(<<>>), scored |-> <<>>]
    ELSE IF env.tfidfFail THEN [out |-> Raises(ExcText), scored |-> <<>>]
    ELSE LET top_indices == Reverse(SliceFrom(env.order, -top_k))
             r == ResultsOf(m.corpus_meta, env.key, top_indices)
         IN  [out |-> Returns(r.out), scored |-> r.scored]

\* historical_matcher.py:226-245: the provider that embeds the query, "" when
\* the query is not embedded.
QueryProvider(m) ==
    IF ~m.use_vector_path \/ m.corpus_meta = <<>> THEN ""
    ELSE IF m.vector_backend = "groq" /\ m.groq_api_key # <<>> THEN "groq"
    ELSE IF m.vector_backend = "hf" THEN "hf"
    ELSE ""

\* historical_matcher.py:220-300: find_similar_cases after its call of
\* _load_documents().  env is what the
\* query meets:
\*   embed      the query embedding: "vec", "empty" ([]), "absent" (None) or
\*              "raise"
\*   fail       the vector store fails inside query_similar
\*   importFail importing chroma_store raises inside find_similar_cases
\*   key, order scores and their sort order, see QuerySimilar and TfidfQuery
\*   tfidfFail  the TF-IDF transform raises
\* The result is [coll, out, scored]; out is Returns(list) or Raises(text).
FindSimilarLoaded(m, coll, query_text, top_k, env) ==
    LET none == [coll |-> coll, out |-> Returns(<<>>), scored |-> <<>>]
        query_clean == LET t == Truncate(query_text, 5000)
                       IN  IF t # <<>> THEN t ELSE <<SpaceChar>>
        embeds == \/ m.vector_backend = "groq" /\ m.groq_api_key # <<>>
                  \/ m.vector_backend = "hf"
        query_emb == IF embeds /\ env.embed \in {"vec", "empty"} THEN env.embed ELSE "absent"
        lexical == LET t == TfidfQuery(m, top_k, env)
                   IN  [coll |-> coll, out |-> t.out, scored |-> t.scored]
    IN  IF m.corpus_meta = <<>> THEN none
        ELSE IF m.use_vector_path
        THEN IF query_emb # "absent" /\ m.use_chroma /\ ~env.importFail
             THEN LET q == QuerySimilar(coll,
                                        IF query_emb = "vec" THEN <<"v">> ELSE <<>>,
                                        top_k, env)
                  IN  [coll |-> q.coll, out |-> Returns(q.out), scored |-> q.scored]
             ELSE IF query_emb # "absent" /\ ~m.use_chroma /\ m.corpus_embeddings
                     /\ query_emb = "vec"
             THEN LET top_indices == SliceTo(Reverse(env.order), top_k)
                      r == ResultsOf(m.corpus_meta, env.key, top_indices)
                  IN  [coll |-> coll, out |-> Returns(r.out), scored |-> r.scored]
             ELSE IF m.vectorizer THEN lexical ELSE none
        ELSE lexical

-----------------------------------------------------------------------------
(* The environments of the matcher.  Choices the code never looks at are   *)
(* fixed, so that each run has one environment.                            *)

KeyVals == {<<>>, <<SpaceChar>>, <<"k">>}

Sources ==
    {[db |-> DbDocs(ds), file |-> "missing", raw |-> <<>>] :
         ds \in SeqsUpTo(Descriptions, MaxDocs) \ {<<>>}}
    \cup {[db |-> <<>>, file |-> f, raw |-> <<>>] : f \in {"missing", "invalid", "raises"}}
    \cup {[db |-> <<>>, file |-> "list", raw |-> r] :
             r \in SeqsUpTo({"dict", "other"}, MaxDocs) \ {<<>>}}

BatchChoices(asked, n) ==
    IF asked
    THEN {NoVectors("absent"), NoVectors("raise")} \cup {Vectors(c) : c \in 0..(n + 1)}
    ELSE {NoVectors("absent")}

SyncChoices(embs, n) ==
    IF embs.kind = "list" /\ embs.count = n THEN SyncOutcomes ELSE {"ok"}

LoadEnvsOf(src, key) ==
    LET n == Len(CorpusOf(src))
        Env(c, cs, l, ls, t) ==
            [src |-> src, key |-> key, cloud |-> c, cloudSync |-> cs,
             local |-> l, localSync |-> ls, tfidf |-> t]
        Cloud == BatchChoices(n > 0 /\ Strip(key) # <<>>, n)
        CloudDone(c, cs) == c.kind = "list" /\ c.count = n /\ cs = "ok" /\ Strip(key) # <<>>
        LocalDone(l, ls) == l.kind = "list" /\ l.count = n /\ ls = "ok"
    IN  UNION {UNION {UNION {UNION {
            {Env(c, cs, l, ls, t) :
                t \in IF n > 0 /\ ~CloudDone(c, cs) /\ ~LocalDone(l, ls)
                      THEN {"ok", "raise"} ELSE {"ok"}}
            : ls \in SyncChoices(l, n)}
            : l \in BatchChoices(n > 0 /\ ~CloudDone(c, cs), n)}
            : cs \in SyncChoices(c, n)}
            : c \in Cloud}

LoadEnvs == UNION {LoadEnvsOf(src, key) : src \in Sources, key \in KeyVals}

IdleLoadEnv == CHOOSE e \in LoadEnvs : TRUE

\* A loaded session meets no load environment.
LoadChoices(m) == IF NeedsLoad(m) THEN LoadEnvs ELSE {IdleLoadEnv}

\* Cosine similarities of TF-IDF vectors (in [0, 1]) and cosine distances
\* of the vector store (in [0, 2]), times 200.
ScoreVals == {1, 3, 200}
DistVals == {0, 197, 300}

QueryEnv(embed, importFail, fail, tfidfFail, key, order) ==
    [embed |-> embed, importFail |-> importFail, fail |-> fail,
     tfidfFail |-> tfidfFail, dist |-> key, key |-> key, order |-> order]

IdleQueryEnv == QueryEnv("absent", FALSE, FALSE, FALSE, <<>>, <<>>)

Scored(n, vals) ==
    UNION {{QueryEnv("vec", FALSE, FALSE, FALSE, k, o) : o \in AscendingOrders(k)}
           : k \in [1..n -> vals]}

\* The environments a query can meet in session m with collection coll.
QueryEnvs(m, coll) ==
    IF m.corpus_meta = <<>> THEN {IdleQueryEnv}
    ELSE IF m.use_vector_path
    THEN {QueryEnv(e, FALSE, FALSE, FALSE, <<>>, <<>>) : e \in {"empty", "absent", "raise"}}
         \cup {QueryEnv("vec", TRUE, FALSE, FALSE, <<>>, <<>>),
               QueryEnv("vec", FALSE, TRUE, FALSE, <<>>, <<>>)}
         \cup Scored(Len(GetOrCreateCollection(coll).rows), DistVals)
    ELSE IF m.vectorizer
    THEN {QueryEnv("absent", FALSE, FALSE, TRUE, <<>>, <<>>)}
         \cup Scored(Len(m.corpus_meta), ScoreVals)
    ELSE {IdleQueryEnv}

\* The arguments of a query: every top_k with one text, and every text with
\* the default top_k.
SomeText == PyStr(<<SpaceChar, "q", "\t", SpaceChar, "q">>)
QueryTexts == {PyNone, PyStr(<<>>), PyStr(<<SpaceChar, "\t">>), SomeText}
TopKs == (-1..MaxTopK) \cup {TOP_K_DEFAULT}
FindArgs ==
    {[query_text |-> SomeText, top_k |-> k] : k \in TopKs}
    \cup {[query_text |-> q, top_k |-> TOP_K_DEFAULT] : q \in QueryTexts}

\* The collection a process finds at its start: none, or what an earlier
\* process left there.
PriorRows(n) ==
    [i \in 1..n |-> [id |-> <<"P", Digit[i + 1]>>, name |-> <<"Prior">>, by |-> "groq"]]
InitialCollections ==
    {NoCollection, [exists |-> TRUE, provider |-> "groq", rows |-> PriorRows(1)]}

-----------------------------------------------------------------------------
(* The matcher's calls *)

\* The record of a call: its arguments, what it returned, and for a call of
\* sync_collection the collection it found (before) and its result (ok).
\* For a call of an embedding provider, texts is the number of input texts
\* and vecs what was returned: None, or a list in which a vector is named by
\* the position of the input text it embeds.  For a query that returned
\* results, sims[i] is what the index computed for document i: its
\* similarity on the lexical tier, its distance in the vector store; failed
\* tells that, on a vector tier, the query's embedding or its lookup in the
\* store failed.
NoCall == [op |-> "none", query_text |-> PyNone, top_k |-> 0,
           out |-> Returns(<<>>), scored |-> <<>>,
           status |-> [vector_store |-> "", embedding_backend |-> ""],
           ids |-> <<>>, provider |-> "", before |-> NoCollection, ok |-> FALSE,
           texts |-> 0, batch_size |-> 0, vecs |-> PyNone,
           sims |-> <<>>, failed |-> FALSE]

MatcherInit ==
    /\ session = UnloadedSession
    /\ collection \in InitialCollections
    /\ call = NoCall
    /\ loadEnv = <<>>
    /\ builds = 0
    /\ calls = 0

\* What is recorded of the environment of a load: the size of the corpus,
\* whether a key is configured, whether each provider returned one vector
\* per document, and whether each sync_collection call would succeed.
LoadFacts(env) ==
    LET n == Len(CorpusOf(env.src))
    IN  [docs |-> n,
         key |-> Strip(env.key) # <<>>,
         cloud |-> env.cloud.kind = "list" /\ env.cloud.count = n,
         cloudSync |-> env.cloudSync = "ok",
         local |-> env.local.kind = "list" /\ env.local.count = n,
         localSync |-> env.localSync = "ok"]

\* What every call does first: _load_documents().  The load environments
\* that lead to the same session, collection and facts are taken as one.
LoadOutcomes(m, coll) ==
    {[ld |-> LoadDocuments(m, coll, lenv), facts |-> LoadFacts(lenv)] :
        lenv \in LoadChoices(m)}

LoadStep(o) ==
    /\ calls' = calls + 1
    /\ loadEnv' = IF NeedsLoad(session) THEN <<o.facts>> ELSE loadEnv
    /\ builds' = IF NeedsLoad(session) THEN builds + 1 ELSE builds
    /\ session' = o.ld.m

\* historical_matcher.py:185-187
PreloadDataset ==
    /\ call = NoCall
    /\ calls < MaxCalls
    /\ \E o \in LoadOutcomes(session, collection) :
          /\ LoadStep(o)
          /\ collection' = o.ld.coll
    /\ call' = [NoCall EXCEPT !.op = "preload_dataset"]

\* historical_matcher.py:190-197
GetVectorStoreStatus ==
    /\ call = NoCall
    /\ calls < MaxCalls
    /\ \E o \in LoadOutcomes(session, collection) :
          /\ LoadStep(o)
          /\ collection' = o.ld.coll
    /\ call' = [NoCall EXCEPT !.op = "get_vector_store_status",
                              !.status = VectorStoreStatus(session')]

\* historical_matcher.py:213-300
FindSimilar ==
    /\ call = NoCall
    /\ calls < MaxCalls
    /\ \E o \in LoadOutcomes(session, collection) :
        \E args \in FindArgs, qenv \in QueryEnvs(o.ld.m, o.ld.coll) :
            LET r == FindSimilarLoaded(o.ld.m, o.ld.coll, args.query_text, args.top_k, qenv)
            IN  /\ LoadStep(o)
                /\ collection' = r.coll
                /\ call' = [NoCall EXCEPT !.op = "find_similar_cases",
                                          !.query_text = args.query_text,
                                          !.top_k = args.top_k,
                                          !.out = r.out,
                                          !.scored = r.scored,
                                          !.sims = IF r.scored = <<>> THEN <<>>
                                                   ELSE qenv.key,
                                          !.provider = QueryProvider(o.ld.m),
                                          !.failed = /\ o.ld.m.use_vector_path
                                                     /\ \/ qenv.embed # "vec"
                                                        \/ qenv.importFail
                                                        \/ qenv.fail]

\* The caller has the value the call returned (or its exception): the call
\* is over, and the next one can be made.  Calls follow one another.
CallReturns ==
    /\ call # NoCall
    /\ call' = NoCall
    /\ UNCHANGED <<session, collection, loadEnv, builds, calls>>

-----------------------------------------------------------------------------
(* Match results, as seen by the workflow.  find_similar_cases is an       *)
(* operation of the matcher, specified by MatcherSpec; to the workflow its *)
(* call returns some list of at most top_k = 5 match results, or raises.   *)

WorkflowCase(i) ==
    [id |-> FileDoc(i).id, name |-> FileDoc(i).name, similarity |-> PctStr(100 - i)]
WorkflowCaseLists == {[i \in 1..n |-> WorkflowCase(i)] : n \in 0..MaxCases}

-----------------------------------------------------------------------------
(* workflow/state.py, workflow/nodes.py *)

NameChars == {SpaceChar, "a"}
NameVals == {PyNone, PyInt} \cup {PyStr(s) : s \in SeqsUpTo(NameChars, MaxNameLen)}
DescVals == {PyNone, PyStr(<<SpaceChar, "d">>)}
RiskVals == {PyNone, PyStr(<<"Credit">>)}
Inputs == [name : NameVals, description : DescVals, riskType : RiskVals]

NoProcessed == [kind |-> "absent", name |-> <<>>, description |-> <<>>, riskType |-> Absent]

\* runner.py:29-34: the keys not listed there are absent.
InitialState(inp) ==
    [scenario_id |-> ScenarioId,
     input |-> inp,
     processed |-> NoProcessed,
     recommendations |-> Absent,
     historical_cases |-> Absent,
     error |-> Absent,
     step_log |-> <<>>,
     retry_count |-> 0]

\* LogStep that starts a new list instead of appending to a copy.
LogStepFresh(step_name, status, state, detail) ==
    [state EXCEPT !.step_log =
        <<[step |-> step_name,
           status |-> status,
           ts |-> PyStr(NowTs),
           detail |-> IF detail # <<>> THEN PyStr(detail) ELSE Absent]>>]

\* nodes.py:13-21.  The entry gets a "detail" key only for a non-empty detail;
\* the list is copied, appended to and stored back.
LogStep(step_name, status, state, detail) ==
    LET entry == [step |-> step_name,
                  status |-> status,
                  ts |-> PyStr(NowTs),
                  detail |-> IF detail # <<>> THEN PyStr(detail) ELSE Absent]
    IN  [state EXCEPT !.step_log = Append(@, entry)]

\* A scenario_processor that leaves an earlier error in place when the
\* input is valid.
ScenarioProcessorKeepsError(state) ==
    LET raw == state.input
        nameV == PyOr(raw.name, PyStr(<<>>))
        descV == PyOr(raw.description, PyStr(<<>>))
        risk_type == PyOr(raw.riskType, PyStr(<<"Market">>))
    IN  IF nameV.kind # "str" \/ descV.kind # "str"
        THEN \* .strip() raises AttributeError: the except branch, lines 46-50
             LogStep("scenario_processor", "error",
                     [state EXCEPT !.error = PyStr(NoStripAttr)], NoStripAttr)
        ELSE LET name == Strip(nameV.val)
                 description == Strip(descV.val)
             IN  IF name = <<>>
                 THEN LogStep("scenario_processor", "error",
                              [state EXCEPT !.error = PyStr(NameRequired)], NameRequired)
                 ELSE LogStep("scenario_processor", "ok",
                              [state EXCEPT !.processed =
                                                [kind |-> "dict",
                                                 name |-> name,
                                                 description |-> description,
                                                 riskType |-> risk_type]],
                              <<>>)

\* nodes.py:24-50
ScenarioProcessorNode(state) ==
    LET raw == state.input
        nameV == PyOr(raw.name, PyStr(<<>>))
        descV == PyOr(raw.description, PyStr(<<>>))
        risk_type == PyOr(raw.riskType, PyStr(<<"Market">>))
    IN  IF nameV.kind # "str" \/ descV.kind # "str"
        THEN \* .strip() raises AttributeError: the except branch, lines 46-50
             LogStep("scenario_processor", "error",
                     [state EXCEPT !.error = PyStr(NoStripAttr)], NoStripAttr)
        ELSE LET name == Strip(nameV.val)
                 description == Strip(descV.val)
             IN  IF name = <<>>
                 THEN LogStep("scenario_processor", "error",
                              [state EXCEPT !.error = PyStr(NameRequired)], NameRequired)
                 ELSE LogStep("scenario_processor", "ok",
                              [state EXCEPT !.processed =
                                                [kind |-> "dict",
                                                 name |-> name,
                                                 description |-> description,
                                                 riskType |-> risk_type],
                                            !.error = PyNone],
                              <<>>)

\* OrchestratorSkip that returns without logging.
OrchestratorSkipSilent(state) == state

\* OrchestratorSkip that also drops the results of an earlier attempt.
OrchestratorSkipReset(state) ==
    LogStep("orchestrator", "skipped",
            [state EXCEPT !.historical_cases = PyList(<<>>),
                          !.recommendations = PyList(<<>>)],
            PreviousError)

\* nodes.py:85-87: orchestrator when error is already set.
OrchestratorSkip(state) == LogStep("orchestrator", "skipped", state, PreviousError)

\* OrchestratorFail that sets error and logs nothing.
OrchestratorFailSilent(state, msg) == [state EXCEPT !.error = PyStr(msg)]

\* nodes.py:109-113: the except branch of orchestrator.
OrchestratorFail(state, msg) ==
    LogStep("orchestrator", "error", [state EXCEPT !.error = PyStr(msg)], msg)

\* nodes.py:104-107: f"riskType={risk_type} historical={..} recommendations={..}"
OrchestratorDetail(risk_type, state) ==
    <<"riskType=">> \o risk_type \o <<" historical=">>
        \o DecStr(Len(state.historical_cases.val))
        \o <<" recommendations=">> \o DecStr(Len(state.recommendations.val))

\* nodes.py:80-113.  env.matcher is what find_similar_cases(query, top_k=5)
\* does, env.lookup what _get_settings() / _get_recommendation_engine() do,
\* env.recs what generate_recommendations does.
OrchestratorNode(state, env) ==
    IF Truthy(state.error)
    THEN OrchestratorSkip(state)
    ELSE LET risk_type == IF state.processed.kind = "dict"
                          THEN PyOr(state.processed.riskType, PyStr(<<>>)).val
                          ELSE <<>>
         IN  IF env.matcher.raises
             THEN OrchestratorFail(state, env.matcher.msg)
             ELSE LET s1 == [state EXCEPT !.historical_cases = PyList(env.matcher.val)]
                  IN  IF env.lookup.raises
                      THEN OrchestratorFail(s1, env.lookup.msg)
                      ELSE IF env.recs.raises
                      THEN OrchestratorFail(s1, env.recs.msg)
                      ELSE LET s2 == [s1 EXCEPT !.recommendations = PyList(env.recs.val)]
                           IN  LogStep("orchestrator", "ok", s2,
                                       OrchestratorDetail(risk_type, s2))

\* The environments of one orchestrator run.  Choices that the code never
\* reaches are fixed, so that each run has one environment.
RecLists == SeqsUpTo({"rec"}, MaxRecs)
OrchestratorEnvs ==
    LET raised == {Raises(m) : m \in ExcMsgs}
        idle == Returns(<<>>)
    IN  {[matcher |-> x, lookup |-> idle, recs |-> idle] : x \in raised}
        \cup {[matcher |-> Returns(c), lookup |-> x, recs |-> idle] :
                 c \in WorkflowCaseLists, x \in raised}
        \cup {[matcher |-> Returns(c), lookup |-> idle, recs |-> x] :
                 c \in WorkflowCaseLists,
                 x \in raised \cup {Returns(r) : r \in RecLists}}

-----------------------------------------------------------------------------
(* workflow/runner.py *)

\* ShouldRetry with an off-by-one attempt test (`attempt <= MAX_RETRIES`).
ShouldRetryOffByOne(state, a) == Truthy(state.error) /\ a <= MAX_RETRIES

\* runner.py:41
ShouldRetry(state, a) == Truthy(state.error) /\ a < MAX_RETRIES

\* runner.py:50-54: the entry of an invocation that raised.
RunnerEntry(msg) ==
    [step |-> "runner", status |-> "error", ts |-> Absent, detail |-> PyStr(msg)]

\* RecordRaise that starts a new step_log with the runner's entry.
RecordRaiseFresh(state, msg) ==
    [state EXCEPT !.error = PyStr(msg), !.step_log = <<RunnerEntry(msg)>>]

\* runner.py:48-54: the except branch records the exception in last_state.
RecordRaise(state, msg) ==
    [state EXCEPT !.error = PyStr(msg), !.step_log = Append(@, RunnerEntry(msg))]

\* A loop of MAX_RETRIES iterations instead of 1 + MAX_RETRIES.
AfterIterationShort(a) == IF a + 1 < MAX_RETRIES THEN "loop" ELSE "finish"

\* runner.py:37: where the loop goes after iteration a has ended without break.
AfterIteration(a) == IF a + 1 <= MAX_RETRIES THEN "loop" ELSE "finish"

\* runner.py:16-21
DefaultCreatedAt(step_log) ==
    IF step_log # <<>> /\ Truthy(step_log[1].ts) /\ Len(step_log[1].ts.val) >= 1
    THEN <<step_log[1].ts.val[1]>>
    ELSE <<"today">>

\* runner.py:59-71
BuildResult(scenario_id, state) ==
    LET processed == state.processed    \* `or {}`: an absent dict has no keys
        step_log == state.step_log
    IN  [kind |-> "dict",
         scenario_id |-> scenario_id,
         scenarioName |-> IF processed.kind = "dict" /\ processed.name # <<>>
                          THEN processed.name ELSE scenario_id,
         riskType |-> IF processed.kind = "dict" /\ Truthy(processed.riskType)
                      THEN processed.riskType.val ELSE <<"Market Risk">>,
         confidenceScore |-> 82,
         createdAt |-> DefaultCreatedAt(step_log),
         recommendations |-> PyOr(state.recommendations, PyList(<<>>)),
         historicalCases |-> PyOr(state.historical_cases, PyList(<<>>)),
         step_log |-> PyList(step_log),
         error |-> IF state.error.kind = "absent" THEN PyNone ELSE state.error]

NoResult == [kind |-> "none"]

GraphPcs == {"scenario_processor", "orchestrator", "graph_end"}

WfInit ==
    /\ pc = "idle"
    /\ input \in Inputs
    /\ attempt = 0
    /\ last_state = InitialState(input)
    /\ gstate = InitialState(input)
    /\ result = NoResult
    /\ outcomes = <<>>
    /\ nodeTrace = <<>>
    /\ matcherCalls = 0
    /\ recCalls = 0

\* runner.py:29-36: build_graph() is called outside the try of the loop, so
\* an exception of graph construction leaves run_scenario_workflow.
BuildGraph ==
    /\ pc = "idle"
    /\ \E built \in BOOLEAN : pc' = IF built THEN "loop" ELSE "raised"
    /\ UNCHANGED <<input, attempt, last_state, gstate, result,
                   outcomes, nodeTrace, matcherCalls, recCalls>>

\* runner.py:40, graph.py:18: graph.invoke starts at the entry point
\* scenario_processor, on its own copy of the state it is given.
Invoke ==
    /\ pc = "loop"
    /\ gstate' = last_state
    /\ pc' = "scenario_processor"
    /\ UNCHANGED <<input, attempt, last_state, result,
                   outcomes, nodeTrace, matcherCalls, recCalls>>

\* graph.py:16,19: node scenario_processor, then the edge to orchestrator.
RunScenarioProcessor ==
    /\ pc = "scenario_processor"
    /\ gstate' = ScenarioProcessorNode(gstate)
    /\ nodeTrace' = Append(nodeTrace,
                           <<Len(outcomes) + 1, "scenario_processor",
                             IF gstate'.error = PyNone THEN "ok" ELSE "error",
                             "none">>)
    /\ pc' = "orchestrator"
    /\ UNCHANGED <<input, attempt, last_state, result,
                   outcomes, matcherCalls, recCalls>>

\* graph.py:17,20: node orchestrator, then the edge to END.
RunOrchestrator ==
    /\ pc = "orchestrator"
    /\ \E env \in OrchestratorEnvs :
          /\ Truthy(gstate.error) => env = CHOOSE e \in OrchestratorEnvs : TRUE
          /\ gstate' = OrchestratorNode(gstate, env)
          /\ matcherCalls' = IF Truthy(gstate.error) THEN matcherCalls
                             ELSE matcherCalls + 1
          /\ recCalls' = IF Truthy(gstate.error) \/ env.matcher.raises \/ env.lookup.raises
                         THEN recCalls ELSE recCalls + 1
          /\ nodeTrace' = Append(nodeTrace,
                                 <<Len(outcomes) + 1, "orchestrator",
                                   IF Truthy(gstate.error) THEN "skipped"
                                   ELSE IF env.matcher.raises \/ env.lookup.raises
                                           \/ env.recs.raises THEN "error"
                                   ELSE "ok",
                                   IF Truthy(gstate.error) THEN "none"
                                   ELSE IF env.matcher.raises THEN "matcher"
                                   ELSE IF env.lookup.raises THEN "settings"
                                   ELSE IF env.recs.raises THEN "generator"
                                   ELSE "none">>)
    /\ pc' = "graph_end"
    /\ UNCHANGED <<input, attempt, last_state, result, outcomes>>

\* runner.py:40-45: graph.invoke returned.
InvokeReturn ==
    /\ pc = "graph_end"
    /\ outcomes' = Append(outcomes, IF Truthy(gstate.error) THEN "error" ELSE "ok")
    /\ IF ShouldRetry(gstate, attempt)
       THEN /\ last_state' = [gstate EXCEPT !.retry_count = @ + 1]
            /\ attempt' = attempt + 1
            /\ pc' = AfterIteration(attempt)
       ELSE /\ last_state' = gstate
            /\ attempt' = attempt
            /\ pc' = "finish"
    /\ UNCHANGED <<input, gstate, result, nodeTrace, matcherCalls, recCalls>>

\* runner.py:46-57: graph.invoke raised (a node raised outside its own try or
\* inside its except branch, or the graph library raised).  last_state was not
\* assigned, so it is still the state the invocation was given.
InvokeRaise ==
    /\ pc \in GraphPcs
    /\ \E msg \in ExcMsgs :
          LET s1 == RecordRaise(last_state, msg)
          IN  IF attempt >= MAX_RETRIES
              THEN /\ last_state' = s1
                   /\ attempt' = attempt
                   /\ pc' = "finish"
              ELSE /\ last_state' = [s1 EXCEPT !.retry_count = @ + 1]
                   /\ attempt' = attempt + 1
                   /\ pc' = AfterIteration(attempt)
    /\ outcomes' = Append(outcomes, "raised")
    /\ UNCHANGED <<input, gstate, result, nodeTrace, matcherCalls, recCalls>>

\* runner.py:59-71
Return ==
    /\ pc = "finish"
    /\ result' = BuildResult(ScenarioId, last_state)
    /\ pc' = "done"
    /\ UNCHANGED <<input, attempt, last_state, gstate,
                   outcomes, nodeTrace, matcherCalls, recCalls>>

\* embeddings_hf.py:10: `_model = None` at import.
EmbedInit ==
    /\ hf_model = "none"
    /\ modelLoads = 0

\* The callers of the concurrent specifications, and a caller that is not
\* in a call.  pc is its position, op the call it makes, texts the length
\* of its local corpus_texts, out what its call returned, during whether
\* another caller's load was running when its call began.
NumCallers == 2
Callers == 1..NumCallers
IdleThread == [pc |-> "idle", op |-> "none", texts |-> 0, out |-> "none", during |-> FALSE]
NoThreads == [t \in Callers |-> IdleThread]

\* One call at a time: no concurrent callers.
ThreadsIdle == threads = NoThreads

\* The workflow alone: the matcher is not running.
MatcherIdle ==
    /\ session = UnloadedSession
    /\ collection = NoCollection
    /\ call = NoCall
    /\ loadEnv = <<>>
    /\ builds = 0
    /\ calls = 0

Init == WfInit /\ MatcherIdle /\ EmbedInit /\ ThreadsIdle

Next ==
    \/ BuildGraph /\ UNCHANGED <<mVars, eVars, cVars>>
    \/ Invoke /\ UNCHANGED <<mVars, eVars, cVars>>
    \/ RunScenarioProcessor /\ UNCHANGED <<mVars, eVars, cVars>>
    \/ RunOrchestrator /\ UNCHANGED <<mVars, eVars, cVars>>
    \/ InvokeReturn /\ UNCHANGED <<mVars, eVars, cVars>>
    \/ InvokeRaise /\ UNCHANGED <<mVars, eVars, cVars>>
    \/ Return /\ UNCHANGED <<mVars, eVars, cVars>>

Spec == Init /\ [][Next]_vars

\* The matcher alone: no workflow is running.
WorkflowIdle ==
    /\ pc = "idle"
    /\ input = CHOOSE i \in Inputs : TRUE
    /\ attempt = 0
    /\ last_state = InitialState(input)
    /\ gstate = InitialState(input)
    /\ result = NoResult
    /\ outcomes = <<>>
    /\ nodeTrace = <<>>
    /\ matcherCalls = 0
    /\ recCalls = 0

MatcherSpecInit == MatcherInit /\ WorkflowIdle /\ EmbedInit /\ ThreadsIdle

MatcherSpecNext ==
    \/ PreloadDataset /\ UNCHANGED <<wfVars, eVars, cVars>>
    \/ GetVectorStoreStatus /\ UNCHANGED <<wfVars, eVars, cVars>>
    \/ FindSimilar /\ UNCHANGED <<wfVars, eVars, cVars>>
    \/ CallReturns /\ UNCHANGED <<wfVars, eVars, cVars>>

MatcherSpec == MatcherSpecInit /\ [][MatcherSpecNext]_vars

-----------------------------------------------------------------------------
(* Claims about the workflow, checked under Spec *)

\* Invocations of the graph started so far.
Invocations == Len(outcomes) + (IF pc \in GraphPcs THEN 1 ELSE 0)

OrchestratorRuns == SelectSeq(nodeTrace, LAMBDA t : t[2] = "orchestrator")
ProcessorRuns == SelectSeq(nodeTrace, LAMBDA t : t[2] = "scenario_processor")
EntriesOf(step_log, step_name) == SelectSeq(step_log, LAMBDA e : e.step = step_name)
Statuses(entries) == [i \in 1..Len(entries) |-> entries[i].status]

\* The input's name is empty or whitespace-only (or missing).
NameBlank == \/ input.name.kind = "none"
             \/ /\ input.name.kind = "str"
                /\ \A i \in 1..Len(input.name.val) : input.name.val[i] \in WhiteChars

\* C1: one call of run_scenario_workflow invokes the graph at most
\* 1 + MAX_RETRIES times; a further invocation is made only after one that
\* ended with error set or raised; an invocation that ends with error unset
\* is the last one; and at return retry_count is the number of invocations
\* made minus one.
C1_BoundedRetries ==
    /\ Invocations <= 1 + MAX_RETRIES
    /\ \A n \in 1..Len(outcomes) :
          /\ n < Invocations => outcomes[n] \in {"error", "raised"}
          /\ outcomes[n] = "ok" => n = Invocations
    /\ pc \in {"finish", "done"} => last_state.retry_count = Invocations - 1

\* C1 witness: a call that used all three invocations and ended well.
C1_Witness ==
    /\ pc = "done"
    /\ outcomes = <<"error", "raised", "ok">>

\* C2: run_scenario_workflow never raises to its caller, whatever fails
\* (graph construction included), and returns a record with scenarioName,
\* riskType, recommendations, historicalCases, step_log (lists) and error.
C2_NeverRaises ==
    /\ pc # "raised"
    /\ pc = "done" =>
          /\ result.kind = "dict"
          /\ result.scenarioName # <<>>
          /\ result.riskType # <<>>
          /\ result.recommendations.kind = "list"
          /\ result.historicalCases.kind = "list"
          /\ result.step_log.kind = "list"
          /\ result.error.kind \in {"none", "str"}

\* The enrich stage failed in invocations 1 and 2 and succeeded in 3, and
\* each of these invocations returned.
EnrichFailsTwice ==
    /\ [i \in 1..Len(OrchestratorRuns) |-> SubSeq(OrchestratorRuns[i], 1, 3)]
          = <<<<1, "orchestrator", "error">>,
              <<2, "orchestrator", "error">>,
              <<3, "orchestrator", "ok">>>>
    /\ Len(outcomes) = 3
    /\ \A n \in 1..3 : outcomes[n] # "raised"

\* C3: if enrich fails on attempts 1 and 2 and succeeds on attempt 3, the
\* result has no error and its step_log holds exactly 3 orchestrator entries,
\* error, error, ok in that order, and one scenario_processor entry for each
\* attempt in which normalize ran, and nothing else.
C3_RetryBudget ==
    (pc = "done" /\ EnrichFailsTwice) =>
        /\ result.error = PyNone
        /\ Statuses(EntriesOf(result.step_log.val, "orchestrator"))
              = <<"error", "error", "ok">>
        /\ Len(EntriesOf(result.step_log.val, "scenario_processor")) = Len(ProcessorRuns)
        /\ Len(result.step_log.val) = 3 + Len(ProcessorRuns)

\* C3 witness: such a run has returned.
C3_Witness == pc = "done" /\ EnrichFailsTwice /\ Len(ProcessorRuns) = 3

\* C4: for an input whose name is empty or whitespace-only, the result has
\* error set (a string) and no historical cases and no recommendations, and
\* neither the matcher nor the recommendation generator is ever called.
C4_BlankName ==
    NameBlank =>
        /\ matcherCalls = 0
        /\ recCalls = 0
        /\ pc = "done" =>
              /\ result.error.kind = "str"
              /\ result.historicalCases = PyList(<<>>)
              /\ result.recommendations = PyList(<<>>)

\* C4 witness: a whitespace-only name went through three attempts.
C4_Witness ==
    /\ pc = "done"
    /\ input.name = PyStr(<<SpaceChar, SpaceChar>>)
    /\ Len(outcomes) = 3
    /\ result.error = PyStr(NameRequired)

\* C5: the step_log the runner holds only grows at its end, across retries
\* and across invocations that raise; the log the graph works on extends it;
\* and the result carries the runner's log.
C5_AppendOnly ==
    /\ [][IsPrefix(last_state.step_log, last_state'.step_log)]_vars
    /\ [](pc \in GraphPcs => IsPrefix(last_state.step_log, gstate.step_log))
    /\ [](pc = "done" => result.step_log.val = last_state.step_log)

\* C5 witness: a result whose log holds the entries of a returned attempt,
\* then of a raised one, then of a third.
C5_Witness ==
    /\ pc = "done"
    /\ outcomes = <<"error", "raised", "error">>
    /\ Statuses(result.step_log.val) = <<"ok", "error", "error", "ok", "error">>

\* C6: every entry of the step_log of a result, the entry of an invocation
\* that raised included, has a step name, a status in {ok, error, skipped}
\* and a timestamp.
C6_EntriesComplete ==
    pc = "done" =>
        \A i \in 1..Len(result.step_log.val) :
            LET e == result.step_log.val[i]
            IN  /\ e.step # ""
                /\ e.status \in {"ok", "error", "skipped"}
                /\ e.ts.kind = "str"

-----------------------------------------------------------------------------
(* The vector store alone: calls of sync_collection with any arguments, on *)
(* any collection an earlier call or process left.                         *)

SyncIds == {[i \in 1..n |-> <<"R", Digit[i + 1]>>] : n \in 0..MaxDocs}
SyncMetas == {[i \in 1..n |-> [name |-> <<"Case">>]] : n \in 0..MaxDocs}
SyncEmbeddings == {[provider |-> p, count |-> c] : p \in {"groq", "hf"}, c \in 0..MaxDocs}

\* chroma_store.py:49-72, called with any arguments.
SyncCollectionCall ==
    /\ call = NoCall
    /\ calls < MaxCalls
    /\ \E ids \in SyncIds, embeddings \in SyncEmbeddings, metadatas \in SyncMetas,
          outcome \in SyncOutcomes :
          LET r == SyncCollection(collection, ids, embeddings, metadatas, outcome)
          IN  /\ collection' = r.coll
              /\ call' = [NoCall EXCEPT !.op = "sync_collection",
                                        !.ids = ids,
                                        !.provider = embeddings.provider,
                                        !.before = collection,
                                        !.ok = r.ok]
    /\ calls' = calls + 1
    /\ UNCHANGED <<session, loadEnv, builds>>

StoreSpecInit == MatcherInit /\ WorkflowIdle /\ EmbedInit /\ ThreadsIdle

StoreSpecNext ==
    \/ SyncCollectionCall /\ UNCHANGED <<wfVars, eVars, cVars>>
    \/ CallReturns /\ UNCHANGED <<wfVars, eVars, cVars>>

StoreSpec == StoreSpecInit /\ [][StoreSpecNext]_vars

-----------------------------------------------------------------------------
(* The embedding providers alone (embeddings.py, embeddings_hf.py).        *)

Min(a, b) == IF a <= b THEN a ELSE b

\* What the cloud API does with each input text of a chunk: "ok" an item
\* with its embedding, "null" an item without embedding, "missing" no item.
\* The response holds the items of the chunk's inputs in input order.
Fates == {"ok", "null", "missing"}

\* embeddings.py:56-66: the loop over the chunks texts[i : i + batch_size],
\* from the chunk that starts at position i (counted from 1) on.
RECURSIVE EmbedChunks(_, _, _, _)
EmbedChunks(i, n, batch_size, fate) ==
    IF i > n THEN <<>>
    ELSE LET last == Min(i + batch_size - 1, n)
             chunk == [j \in 1..(last - i + 1) |-> i + j - 1]
         IN  SelectSeq(chunk, LAMBDA t : fate[t] = "ok")
                 \o EmbedChunks(i + batch_size, n, batch_size, fate)

\* get_embeddings_batch that returns what it collected without comparing
\* its length with the number of texts.
GetEmbeddingsBatchUnchecked(n, api_key, batch_size, env) ==
    IF Strip(api_key) = <<>> \/ n = 0 THEN PyNone
    ELSE IF env.raises THEN PyNone
    ELSE PyList(EmbedChunks(1, n, batch_size, env.fate))

\* embeddings.py:41-70.  n is the number of texts; env.raises: the import,
\* the client or a create call raises.
GetEmbeddingsBatch(n, api_key, batch_size, env) ==
    IF Strip(api_key) = <<>> \/ n = 0 THEN PyNone
    ELSE IF env.raises THEN PyNone
    ELSE LET out == EmbedChunks(1, n, batch_size, env.fate)
         IN  IF Len(out) = n THEN PyList(out) ELSE PyNone

\* embeddings_hf.py:22-33.  load_ok: the load, if attempted, succeeds.
\* The result is the model afterwards and whether a load was attempted.
GetModel(model, load_ok) ==
    IF model = "none"
    THEN [model |-> IF load_ok THEN "loaded" ELSE "none", attempted |-> TRUE]
    ELSE [model |-> model, attempted |-> FALSE]

\* embeddings_hf.py:36-47
GetEmbeddingHf(model, env) ==
    LET g == GetModel(model, env.load_ok)
    IN  [model |-> g.model, attempted |-> g.attempted,
         vecs |-> IF g.model = "none" \/ env.raises THEN PyNone ELSE PyList(<<1>>)]

\* embeddings_hf.py:50-69.  model.encode returns an array of env.rows rows
\* and env.ndim dimensions, row i for text i, or raises.
GetEmbeddingsBatchHf(model, n, batch_size, env) ==
    IF n = 0 THEN [model |-> model, attempted |-> FALSE, vecs |-> PyNone]
    ELSE LET g == GetModel(model, env.load_ok)
         IN  [model |-> g.model, attempted |-> g.attempted,
              vecs |-> IF g.model = "none" \/ env.raises THEN PyNone
                       ELSE IF env.ndim = 2 /\ env.rows = n
                       THEN PyList([i \in 1..env.rows |-> i])
                       ELSE PyNone]

CloudEnvs(n) == {[raises |-> r, fate |-> f] : r \in BOOLEAN, f \in [1..n -> Fates]}
LocalEnvs(n) ==
    {[load_ok |-> l, raises |-> r, ndim |-> d, rows |-> k] :
        l \in BOOLEAN, r \in BOOLEAN, d \in {1, 2}, k \in {n - 1, n, n + 1} \cap Nat}
BatchSizes(default) == (1..MaxBatch) \cup {default}

EmbedCall(op, n, batch_size, vecs) ==
    /\ call' = [NoCall EXCEPT !.op = op, !.texts = n, !.batch_size = batch_size,
                              !.vecs = vecs]
    /\ calls' = calls + 1
    /\ UNCHANGED <<session, collection, loadEnv, builds>>

\* embeddings.py:41-70
GetEmbeddingsBatchCall ==
    /\ call = NoCall
    /\ calls < MaxCalls
    /\ \E n \in 0..MaxTexts, key \in KeyVals, batch_size \in BatchSizes(BATCH_SIZE) :
          \E env \in CloudEnvs(n) :
              EmbedCall("get_embeddings_batch", n, batch_size,
                        GetEmbeddingsBatch(n, key, batch_size, env))
    /\ UNCHANGED eVars

LocalCall(op, n, batch_size, r) ==
    /\ EmbedCall(op, n, batch_size, r.vecs)
    /\ hf_model' = r.model
    /\ modelLoads' = IF r.attempted THEN modelLoads + 1 ELSE modelLoads

\* embeddings_hf.py:36-47
GetEmbeddingHfCall ==
    /\ call = NoCall
    /\ calls < MaxCalls
    /\ \E env \in LocalEnvs(1) :
          LocalCall("get_embedding_hf", 1, 0, GetEmbeddingHf(hf_model, env))

\* embeddings_hf.py:50-69
GetEmbeddingsBatchHfCall ==
    /\ call = NoCall
    /\ calls < MaxCalls
    /\ \E n \in 0..MaxTexts, batch_size \in BatchSizes(HF_BATCH_SIZE) :
          \E env \in LocalEnvs(n) :
              LocalCall("get_embeddings_batch_hf", n, batch_size,
                        GetEmbeddingsBatchHf(hf_model, n, batch_size, env))

EmbedSpecInit == MatcherIdle /\ WorkflowIdle /\ EmbedInit /\ ThreadsIdle

EmbedSpecNext ==
    \/ GetEmbeddingsBatchCall /\ UNCHANGED <<wfVars, cVars>>
    \/ GetEmbeddingHfCall /\ UNCHANGED <<wfVars, cVars>>
    \/ GetEmbeddingsBatchHfCall /\ UNCHANGED <<wfVars, cVars>>
    \/ CallReturns /\ UNCHANGED <<wfVars, eVars, cVars>>

EmbedSpec == EmbedSpecInit /\ [][EmbedSpecNext]_vars

-----------------------------------------------------------------------------
(* Claims about the matcher, checked under MatcherSpec *)

Chroma(backend) == [vector_store |-> "chromadb", embedding_backend |-> backend]
Lexical == [vector_store |-> "tfidf", embedding_backend |-> ""]

\* C7: on the first load of a non-empty corpus the tier is a function of
\* whether a key is configured, whether each provider returned one vector per
\* document and whether persisting them succeeded: cloud if key, cloud batch
\* and its persistence are all good, else local if the local batch and its
\* persistence are good, else lexical.  A provider with an absent or
\* miscounted batch is not selected and none of its vectors is persisted.
C7_TierSelection ==
    (loadEnv # <<>> /\ loadEnv[1].docs > 0) =>
        LET f == loadEnv[1]
            cloudGood == f.key /\ f.cloud /\ f.cloudSync
            localGood == f.local /\ f.localSync
        IN  /\ VectorStoreStatus(session) =
                  IF cloudGood THEN Chroma("groq")
                  ELSE IF localGood THEN Chroma("hf")
                  ELSE Lexical
            /\ ~(f.key /\ f.cloud) =>
                  /\ session.vector_backend # "groq"
                  /\ collection.provider = "groq" => collection \in InitialCollections
            /\ ~f.local =>
                  /\ session.vector_backend # "hf"
                  /\ collection.provider # "hf"

\* C7 witness: with a key configured the cloud batch came back short, and
\* the local provider was selected and persisted.
C7_Witness ==
    /\ loadEnv # <<>>
    /\ loadEnv[1].docs = MaxDocs
    /\ loadEnv[1].key /\ ~loadEnv[1].cloud
    /\ session.vector_backend = "hf"
    /\ collection.provider = "hf"

\* C8: once a call has completed the load, no later call rebuilds the
\* corpus, re-runs the selection or changes what get_vector_store_status
\* reports, also when the load failed or found no corpus and when a later
\* query fails.
C8_StickySession ==
    [][session.loaded =>
          /\ session' = session
          /\ builds' = builds
          /\ loadEnv' = loadEnv
          /\ VectorStoreStatus(session') = VectorStoreStatus(session)]_vars

\* C8 witness: a second call, a query that failed on the vector tier, after
\* the one load.
C8_Witness ==
    /\ calls = 2
    /\ builds = 1
    /\ session.use_vector_path
    /\ call.op = "find_similar_cases"
    /\ call.out = Returns(<<>>)
    /\ call.top_k = TOP_K_DEFAULT

Max(a, b) == IF a >= b THEN a ELSE b

\* C9: find_similar_cases returns at most top_k results, for top_k = 0 and
\* negative top_k too, and at most as many as the corpus has.
C9_AtMostTopK ==
    (call.op = "find_similar_cases" /\ ~call.out.raises) =>
        /\ Len(call.out.val) <= Max(call.top_k, 0)
        /\ Len(call.out.val) <= Len(session.corpus_meta)

\* C10: the results of find_similar_cases are in non-increasing order of
\* similarity, and each similarity is the integer percentage, "0%" to
\* "100%", of the score clamped to [0, 1] and then rounded.
C10_OrderedPercentages ==
    (call.op = "find_similar_cases" /\ ~call.out.raises) =>
        LET out == call.out.val
        IN  /\ Len(call.scored) = Len(out)
            /\ \A i \in 1..Len(out) :
                  /\ out[i].similarity = PctStr(PyRoundPct(Clamp(0, call.scored[i], ScoreOne)))
                  /\ PctVal(out[i].similarity) \in 0..100
            /\ \A i \in 1..(Len(out) - 1) :
                  PctVal(out[i].similarity) >= PctVal(out[i + 1].similarity)

\* C10 witness: two results of different similarity, the second one of a
\* negative score.
C10_Witness ==
    /\ call.op = "find_similar_cases"
    /\ Len(call.out.val) = 2
    /\ call.out.val[1].similarity = <<"1", "0", "0", "%">>
    /\ call.scored[2] < 0
    /\ call.out.val[2].similarity = <<"0", "%">>

\* The query text is missing (None), empty or whitespace-only.
QueryBlank(q) == q.kind # "str" \/ \A i \in 1..Len(q.val) : q.val[i] \in WhiteChars

\* C11: with a non-empty corpus, on every tier, find_similar_cases called with
\* empty, whitespace-only or missing query text returns an empty result and
\* does not raise.
C11_BlankQueryEmpty ==
    (/\ call.op = "find_similar_cases"
     /\ QueryBlank(call.query_text)
     /\ session.corpus_meta # <<>>) => call.out = Returns(<<>>)

\* C12: find_similar_cases never raises to its caller, whatever fails at
\* query time on the vector tier or inside the lexical query path.
C12_QueryNeverRaises ==
    call.op = "find_similar_cases" => ~call.out.raises

-----------------------------------------------------------------------------
(* Claims about the vector store, checked under StoreSpec *)

\* C13: sync_collection is all-or-nothing: when it returns True the
\* collection holds exactly the given ids (with the given embeddings and
\* metadatas), and when it returns False the collection holds exactly what
\* it held before the call.
C13_SyncAllOrNothing ==
    call.op = "sync_collection" =>
        IF call.ok
        THEN /\ collection.exists
             /\ collection.provider = call.provider
             /\ [i \in 1..Len(collection.rows) |-> collection.rows[i].id] = call.ids
        ELSE collection = call.before

-----------------------------------------------------------------------------
(* Claims about the embedding providers, checked under EmbedSpec *)

BatchOps == {"get_embeddings_batch", "get_embeddings_batch_hf"}

C15_LoadAtMostOnce == modelLoads <= 1

-----------------------------------------------------------------------------
(* Further claims about the workflow, checked under Spec *)

\* Node `node` ran in invocation n with status `status`.
Ran(n, node, status) ==
    \E i \in 1..Len(nodeTrace) : SubSeq(nodeTrace[i], 1, 3) = <<n, node, status>>

\* Node `node` ran in invocation n.
RanIn(n, node) == \E i \in 1..Len(nodeTrace) : nodeTrace[i][1] = n /\ nodeTrace[i][2] = node

\* C16: after an attempt in which normalize (scenario_processor) succeeded
\* and enrich (orchestrator) set error, the retry does not run normalize
\* again; normalize is run again only after an attempt whose invocation
\* raised.
C16_NoRedundantNormalize ==
    \A n \in 1..Len(outcomes) :
        (/\ outcomes[n] = "error"
         /\ Ran(n, "scenario_processor", "ok")
         /\ Ran(n, "orchestrator", "error")) => ~RanIn(n + 1, "scenario_processor")

NodeSteps == {"scenario_processor", "orchestrator"}
NodeEntries(step_log) == SelectSeq(step_log, LAMBDA e : e.step \in NodeSteps)
Returned == Len(SelectSeq(outcomes, LAMBDA o : o # "raised"))

\* The node entries of a log are those of n whole attempts, in each of them
\* one of scenario_processor and then one of orchestrator, and then the
\* first `more` entries of a further attempt.
WholeAttempts(step_log, n, more) ==
    LET ne == NodeEntries(step_log)
    IN  /\ Len(ne) = 2 * n + more
        /\ \A k \in 1..Len(ne) :
              /\ ne[k].step = IF k % 2 = 1 THEN "scenario_processor" ELSE "orchestrator"
              /\ ne[k].status \in {"ok", "error", "skipped"}

\* C17: in every attempt whose invocation does not raise each of the two
\* nodes appends exactly one step_log entry, whatever path it takes, the
\* entry of scenario_processor before that of orchestrator; after n
\* non-raising attempts the step_log holds exactly 2n node entries.
C17_OneEntryPerNode ==
    /\ WholeAttempts(last_state.step_log, Returned, 0)
    /\ pc = "scenario_processor" => WholeAttempts(gstate.step_log, Returned, 0)
    /\ pc = "orchestrator" => WholeAttempts(gstate.step_log, Returned, 1)
    /\ pc = "graph_end" => WholeAttempts(gstate.step_log, Returned, 2)
    /\ pc = "done" => WholeAttempts(result.step_log.val, Returned, 0)

\* C17 witness: a result after two attempts that returned and one that
\* raised between them, with the four node entries of the two.
C17_Witness ==
    /\ pc = "done"
    /\ outcomes = <<"error", "raised", "error">>
    /\ Statuses(NodeEntries(result.step_log.val)) = <<"error", "skipped", "error", "skipped">>

\* The orchestrator run that has just ended, if the graph is at its end.
LastRun == nodeTrace[Len(nodeTrace)]
LastEntry(step_log) == step_log[Len(step_log)]

\* C18: a failure of the matcher or of the recommendation generator inside
\* enrich does not set error and does not abort the stage: when the matcher
\* call raises historical_cases becomes [], when the generator raises
\* recommendations becomes [], and in both cases the stage logs ok (so that
\* no retry follows).
C18_LocalFailuresDegrade ==
    (pc = "graph_end" /\ LastRun[4] \in {"matcher", "generator"}) =>
        /\ ~Truthy(gstate.error)
        /\ LastEntry(gstate.step_log).step = "orchestrator"
        /\ LastEntry(gstate.step_log).status = "ok"
        /\ LastRun[4] = "matcher" => gstate.historical_cases = PyList(<<>>)
        /\ LastRun[4] = "generator" => gstate.recommendations = PyList(<<>>)

\* C19: an invocation that raises appends exactly one entry, of status
\* error, to the step_log of the state carried to the next attempt, keeps
\* the entries logged before it, sets error, and uses up one of the
\* 1 + MAX_RETRIES attempts.
C19_RaiseRecorded ==
    [][(Len(outcomes') = Len(outcomes) + 1 /\ outcomes'[Len(outcomes')] = "raised") =>
          /\ Len(last_state'.step_log) = Len(last_state.step_log) + 1
          /\ IsPrefix(last_state.step_log, last_state'.step_log)
          /\ LastEntry(last_state'.step_log).status = "error"
          /\ last_state'.error.kind = "str"
          /\ Len(outcomes') <= 1 + MAX_RETRIES
          /\ Len(outcomes') = 1 + MAX_RETRIES => pc' = "finish"
          /\ Len(outcomes') < 1 + MAX_RETRIES => pc' = "loop"]_vars

\* C19 witness: all three attempts raised, after none of them a fourth, and
\* the result holds their three entries.
C19_Witness ==
    /\ pc = "done"
    /\ outcomes = <<"raised", "raised", "raised">>
    /\ Statuses(result.step_log.val) = <<"error", "error", "error">>
    /\ result.error.kind = "str"

\* C20: whenever orchestrator starts with error already set it appends
\* exactly one step_log entry, of status skipped, leaves every other field
\* of the state (processed, historical_cases, recommendations, error,
\* retry_count) unchanged, and calls neither the matcher nor the
\* recommendation generator.
C20_SkipFrame ==
    [][(pc = "orchestrator" /\ pc' = "graph_end" /\ Truthy(gstate.error)) =>
          /\ Len(gstate'.step_log) = Len(gstate.step_log) + 1
          /\ IsPrefix(gstate.step_log, gstate'.step_log)
          /\ LastEntry(gstate'.step_log).step = "orchestrator"
          /\ LastEntry(gstate'.step_log).status = "skipped"
          /\ [gstate' EXCEPT !.step_log = gstate.step_log] = gstate
          /\ matcherCalls' = matcherCalls
          /\ recCalls' = recCalls]_vars

\* C20 witness: the orchestrator was skipped in a third attempt.
C20_Witness ==
    /\ pc = "graph_end"
    /\ Len(outcomes) = 2
    /\ Truthy(gstate.error)
    /\ gstate.retry_count = 2
    /\ LastEntry(gstate.step_log).status = "skipped"
    /\ matcherCalls = 0

-----------------------------------------------------------------------------
(* Further claims about the matcher, checked under MatcherSpec *)

\* The position in the corpus of the document with the given id.
PosOf(id) == CHOOSE i \in 1..Len(session.corpus_meta) : session.corpus_meta[i].id = id
Returned_ids == {call.out.val[i].id : i \in 1..Len(call.out.val)}

\* C21: entries of equal similarity are returned in corpus insertion order,
\* and when only some of the tied entries fit within top_k the ones inserted
\* earlier are the ones returned.
C21_TiesInInsertionOrder ==
    (call.op = "find_similar_cases" /\ ~call.out.raises /\ call.out.val # <<>>) =>
        LET out == call.out.val
        IN  /\ \A i, j \in 1..Len(out) :
                  (i < j /\ call.sims[PosOf(out[i].id)] = call.sims[PosOf(out[j].id)])
                      => PosOf(out[i].id) < PosOf(out[j].id)
            /\ \A i \in 1..Len(out), d \in 1..Len(session.corpus_meta) :
                  (/\ session.corpus_meta[d].id \notin Returned_ids
                   /\ call.sims[d] = call.sims[PosOf(out[i].id)])
                      => PosOf(out[i].id) < d

\* Every vector of the collection was produced by provider p.
AllBy(coll, p) == \A i \in 1..Len(coll.rows) : coll.rows[i].by = p

Normalized(t) == Truncate(PyStr(t), MAX_TEXT_CHARS) = t

\* C23: every document text of the index, from the reference cases, from
\* the stored scenarios or from the fallback file, is a text as the
\* normalization of the queries (trim, collapse whitespace runs, truncate
\* at 5000) produces them.
C23_SameNormalization ==
    \A i \in 1..Len(session.corpus_meta) : Normalized(session.corpus_meta[i].text)

-----------------------------------------------------------------------------
(* Concurrent calls into the matcher (specification ConcSpec).             *)
(* The endpoints of main.py that reach the matcher are plain functions,    *)
(* which the web framework runs on a pool of threads, so that several      *)
(* callers can be inside the matcher together; so can the threads of any   *)
(* other program that imports the module.  ConcSpec is a process in which  *)
(* no call has been made yet (main.py:79-87 makes one at startup, and      *)
(* goes on without it when it cannot).  historical_matcher.py holds no     *)
(* lock.  Each action is a stretch of a call between two places where      *)
(* another thread can run.                                                 *)

Ops == {"find_similar_cases", "get_vector_store_status", "preload_dataset"}

\* The positions inside the body of _load_documents.
LoadingPcs == {"reset", "docs", "cloud", "selectCloud", "local", "selectLocal", "lexical"}
Loading(t) == threads[t].pc \in LoadingPcs

\* The process is configured with a cloud key, and the database holds one
\* document.
ConcKey == <<"k">>
ConcCorpus == DbDocs(<<<<"d">>>>)

At(t, p) == threads[t].pc = p
Goto(t, p) == threads' = [threads EXCEPT ![t].pc = p]

\* A caller enters find_similar_cases, get_vector_store_status or
\* preload_dataset (historical_matcher.py:185, 190, 213).
Enter(t, op) ==
    /\ At(t, "idle")
    /\ threads' = [threads EXCEPT ![t] =
                      [IdleThread EXCEPT !.pc = "check", !.op = op,
                                         !.during = \E u \in Callers \ {t} : Loading(u)]]
    /\ UNCHANGED mVars

\* historical_matcher.py:58-59: `if _loaded: return`
CheckLoaded(t) ==
    /\ At(t, "check")
    /\ Goto(t, IF NeedsLoad(session) THEN "reset" ELSE "answer")
    /\ UNCHANGED mVars

\* historical_matcher.py:60-66
ResetSession(t) ==
    /\ At(t, "reset")
    /\ session' = ResetGlobals(session, ConcKey)
    /\ builds' = builds + 1
    /\ Goto(t, "docs")
    /\ UNCHANGED <<collection, call, loadEnv, calls>>

\* historical_matcher.py:68-109: the documents are read and the global
\* _corpus_meta is assigned; corpus_texts is local.
ReadDocs(t) ==
    /\ At(t, "docs")
    /\ session' = [session EXCEPT !.corpus_meta = ConcCorpus]
    /\ threads' = [threads EXCEPT ![t].pc = "cloud", ![t].texts = Len(ConcCorpus)]
    /\ UNCHANGED <<collection, call, loadEnv, builds, calls>>

\* historical_matcher.py:112-127 and 141-155: corpus_texts is embedded,
\* the vectors are compared with the global _corpus_meta and persisted.
Persist(t, at, provider, then, else) ==
    /\ At(t, at)
    /\ \E embs \in BatchChoices(TRUE, threads[t].texts), sync \in SyncOutcomes :
          LET r == TryPersist(collection, session.corpus_meta, embs, provider, sync)
          IN  /\ collection' = r.coll
              /\ Goto(t, IF r.ok THEN then ELSE else)
    /\ UNCHANGED <<session, call, loadEnv, builds, calls>>

PersistCloud(t) ==
    IF session.groq_api_key # <<>>
    THEN Persist(t, "cloud", "groq", "selectCloud", "local")
    ELSE At(t, "cloud") /\ Goto(t, "local") /\ UNCHANGED mVars

PersistLocal(t) == Persist(t, "local", "hf", "selectLocal", "lexical")

\* historical_matcher.py:128-133 and 156-162
Select(t, at, provider) ==
    /\ At(t, at)
    /\ session' = SelectVector(session, provider)
    /\ Goto(t, "answer")
    /\ UNCHANGED <<collection, call, loadEnv, builds, calls>>

SelectCloud(t) == Select(t, "selectCloud", "groq")
SelectLocal(t) == Select(t, "selectLocal", "hf")

\* historical_matcher.py:168-182
FitLexical(t) ==
    /\ At(t, "lexical")
    /\ \E fit \in {"ok", "raise"} :
          session' = IF fit = "ok"
                     THEN [session EXCEPT !.vectorizer = TRUE,
                                          !.corpus_embeddings = FALSE,
                                          !.use_vector_path = FALSE,
                                          !.vector_backend = ""]
                     ELSE [session EXCEPT !.vectorizer = FALSE,
                                          !.corpus_embeddings = FALSE,
                                          !.corpus_meta = <<>>]
    /\ Goto(t, "answer")
    /\ UNCHANGED <<collection, call, loadEnv, builds, calls>>

\* What a call answers once _load_documents has returned, in session m
\* with collection coll, when the query meets no failure
\* (historical_matcher.py:187, 191-197, 220-300).
AnswerOf(op, m, coll) ==
    LET envs == {e \in QueryEnvs(m, coll) :
                    e.embed = "vec" /\ ~e.importFail /\ ~e.fail /\ ~e.tfidfFail}
        env == IF envs = {} THEN IdleQueryEnv ELSE CHOOSE e \in envs : TRUE
        r == FindSimilarLoaded(m, coll, SomeText, TOP_K_DEFAULT, env)
    IN  IF op = "find_similar_cases" THEN [out |-> r.out, coll |-> r.coll]
        ELSE IF op = "get_vector_store_status"
        THEN [out |-> VectorStoreStatus(m), coll |-> coll]
        ELSE [out |-> "none", coll |-> coll]

Answer(t) ==
    /\ At(t, "answer")
    /\ LET a == AnswerOf(threads[t].op, session, collection)
       IN  /\ threads' = [threads EXCEPT ![t].pc = "done", ![t].out = a.out]
           /\ collection' = a.coll
    /\ UNCHANGED <<session, call, loadEnv, builds, calls>>

ConcInit == MatcherInit /\ WorkflowIdle /\ EmbedInit /\ ThreadsIdle

ConcNext ==
    \E t \in Callers :
        \/ (\E op \in Ops : Enter(t, op)) /\ UNCHANGED <<wfVars, eVars>>
        \/ CheckLoaded(t) /\ UNCHANGED <<wfVars, eVars>>
        \/ ResetSession(t) /\ UNCHANGED <<wfVars, eVars>>
        \/ ReadDocs(t) /\ UNCHANGED <<wfVars, eVars>>
        \/ PersistCloud(t) /\ UNCHANGED <<wfVars, eVars>>
        \/ SelectCloud(t) /\ UNCHANGED <<wfVars, eVars>>
        \/ PersistLocal(t) /\ UNCHANGED <<wfVars, eVars>>
        \/ SelectLocal(t) /\ UNCHANGED <<wfVars, eVars>>
        \/ FitLexical(t) /\ UNCHANGED <<wfVars, eVars>>
        \/ Answer(t) /\ UNCHANGED <<wfVars, eVars>>

ConcSpec == ConcInit /\ [][ConcNext]_vars

\* C24: under every interleaving of concurrent first calls, the body of
\* _load_documents (load, embed, persist) runs at most once per process.
C24_LoadedOnce == builds <= 1

\* C27: a call that began while another caller's load was running has
\* returned what it would return now that the load is over (taken where
\* only one load ever ran).
C27_AnswerAsAfterLoad ==
    \A t \in Callers :
        (/\ threads[t].pc = "done"
         /\ threads[t].during
         /\ builds <= 1
         /\ \A u \in Callers : ~Loading(u))
        => threads[t].out = AnswerOf(threads[t].op, session, collection).out

-----------------------------------------------------------------------------
(* A replace of the collection next to queries (specification ReplaceSpec). *)
(* Caller 1 runs sync_collection, every other caller runs query_similar,   *)
(* each call of the client library being one step.  chroma_store.py holds  *)
(* no lock.  A caller's handle is the collection object it holds: "live",  *)
(* or "stale" once that collection has been deleted.  No call fails by     *)
(* itself here: what fails, fails because of the other caller.             *)

IdleStoreCaller == [pc |-> "idle", op |-> "none", handle |-> "none", count |-> 0, out |-> "none"]

Syncer == 1
Queriers == Callers \ {Syncer}

IdsOf(rows) == [i \in 1..Len(rows) |-> rows[i].id]

\* chroma_store.py:58-61: the arguments are consistent and not empty.
SyncStart(t) ==
    /\ t = Syncer
    /\ At(t, "idle")
    /\ \E ids \in SyncIds \ {<<>>} :
          call' = [NoCall EXCEPT !.op = "sync_collection", !.ids = ids,
                                 !.provider = "hf", !.before = collection]
    /\ threads' = [threads EXCEPT ![t].pc = "delete", ![t].op = "sync_collection"]
    /\ UNCHANGED <<session, collection, loadEnv, builds, calls>>

\* chroma_store.py:62-65: the collection is gone, and so is whatever a
\* caller holds of it.
SyncDelete(t) ==
    /\ At(t, "delete")
    /\ collection' = NoCollection
    /\ threads' = [u \in Callers |->
                      IF u = t THEN [threads[u] EXCEPT !.pc = "create"]
                      ELSE IF threads[u].handle = "live"
                      THEN [threads[u] EXCEPT !.handle = "stale"]
                      ELSE threads[u]]
    /\ UNCHANGED <<session, call, loadEnv, builds, calls>>

\* chroma_store.py:66, and 70-72 when create_collection raises because the
\* collection exists.
SyncCreate(t) ==
    /\ At(t, "create")
    /\ IF collection.exists
       THEN /\ threads' = [threads EXCEPT ![t].pc = "done", ![t].out = "failed"]
            /\ UNCHANGED collection
       ELSE /\ threads' = [threads EXCEPT ![t].pc = "add", ![t].handle = "live"]
            /\ collection' = EmptyCollection
    /\ UNCHANGED <<session, call, loadEnv, builds, calls>>

\* chroma_store.py:67-69
SyncAdd(t) ==
    /\ At(t, "add")
    /\ collection' = [exists |-> TRUE, provider |-> call.provider,
                      rows |-> [i \in 1..Len(call.ids) |->
                                   [id |-> call.ids[i], name |-> <<"Case">>,
                                    by |-> call.provider]]]
    /\ threads' = [threads EXCEPT ![t].pc = "done", ![t].out = "ok"]
    /\ UNCHANGED <<session, call, loadEnv, builds, calls>>

\* chroma_store.py:83-85: a query embedding, and n_results of at least the
\* size of the collection.
QueryStart(t) ==
    /\ t \in Queriers
    /\ At(t, "idle")
    /\ threads' = [threads EXCEPT ![t].pc = "get", ![t].op = "query_similar"]
    /\ UNCHANGED mVars

\* chroma_store.py:39-45: get_collection
QueryGet(t) ==
    /\ At(t, "get")
    /\ threads' = IF collection.exists
                  THEN [threads EXCEPT ![t].pc = "count", ![t].handle = "live"]
                  ELSE [threads EXCEPT ![t].pc = "qcreate"]
    /\ UNCHANGED mVars

\* chroma_store.py:46: create_collection, which raises when the collection
\* exists by now (114-116: the query returns []).
QueryCreate(t) ==
    /\ At(t, "qcreate")
    /\ IF collection.exists
       THEN /\ threads' = [threads EXCEPT ![t].pc = "done", ![t].out = <<>>]
            /\ UNCHANGED collection
       ELSE /\ threads' = [threads EXCEPT ![t].pc = "count", ![t].handle = "live"]
            /\ collection' = EmptyCollection
    /\ UNCHANGED <<session, call, loadEnv, builds, calls>>

\* chroma_store.py:87-89: coll.count(), which raises on a deleted
\* collection.
QueryCount(t) ==
    /\ At(t, "count")
    /\ threads' = IF threads[t].handle = "stale" \/ Len(collection.rows) = 0
                  THEN [threads EXCEPT ![t].pc = "done", ![t].out = <<>>]
                  ELSE [threads EXCEPT ![t].pc = "query",
                                       ![t].count = Len(collection.rows)]
    /\ UNCHANGED mVars

\* chroma_store.py:90-113: coll.query(n_results = min(n_results, count)).
QueryRun(t) ==
    /\ At(t, "query")
    /\ threads' = IF threads[t].handle = "stale"
                  THEN [threads EXCEPT ![t].pc = "done", ![t].out = <<>>]
                  ELSE [threads EXCEPT ![t].pc = "done",
                                       ![t].out = SliceTo(IdsOf(collection.rows),
                                                          threads[t].count)]
    /\ UNCHANGED mVars

ReplaceInit ==
    /\ MatcherInit /\ WorkflowIdle /\ EmbedInit
    /\ threads = [t \in Callers |-> IdleStoreCaller]

ReplaceNext ==
    \E t \in Callers :
        \/ SyncStart(t) /\ UNCHANGED <<wfVars, eVars>>
        \/ SyncDelete(t) /\ UNCHANGED <<wfVars, eVars>>
        \/ SyncCreate(t) /\ UNCHANGED <<wfVars, eVars>>
        \/ SyncAdd(t) /\ UNCHANGED <<wfVars, eVars>>
        \/ QueryStart(t) /\ UNCHANGED <<wfVars, eVars>>
        \/ QueryGet(t) /\ UNCHANGED <<wfVars, eVars>>
        \/ QueryCreate(t) /\ UNCHANGED <<wfVars, eVars>>
        \/ QueryCount(t) /\ UNCHANGED <<wfVars, eVars>>
        \/ QueryRun(t) /\ UNCHANGED <<wfVars, eVars>>

ReplaceSpec == ReplaceInit /\ [][ReplaceNext]_vars

\* C25: under every interleaving of sync_collection with query_similar, a
\* finished query has seen the collection as it was before the replace or as
\* it is after it, never in between, and the replace has succeeded.
C25_ReplaceCritical ==
    (\A t \in Callers : threads[t].pc = "done") =>
        /\ threads[Syncer].out = "ok"
        /\ \A q \in Queriers :
              threads[q].out \in {IdsOf(call.before.rows), call.ids}

-----------------------------------------------------------------------------
(* Further claims about the tiers *)

-----------------------------------------------------------------------------
(* Further claims about the workflow's results *)

\* The entries of a step log as <<step, status>> pairs.
StepsOf(step_log) == [k \in 1..Len(step_log) |-> <<step_log[k].step, step_log[k].status>>]

\* n attempts in which normalize failed and enrich was skipped.
RejectedAttempts(n) ==
    [k \in 1..(2 * n) |-> IF k % 2 = 1 THEN <<"scenario_processor", "error">>
                          ELSE <<"orchestrator", "skipped">>]

\* C28: for an input whose name is empty after trimming, when the
\* validation failure is the only failure (every invocation returned),
\* run_scenario_workflow makes exactly 1 + MAX_RETRIES attempts, and the
\* result's step_log is scenario_processor error, orchestrator skipped,
\* once per attempt and in this order.
C28_ValidationUsesBudget ==
    (pc = "done" /\ NameBlank /\ \A n \in 1..Len(outcomes) : outcomes[n] # "raised") =>
        /\ Len(outcomes) = 1 + MAX_RETRIES
        /\ StepsOf(result.step_log.val) = RejectedAttempts(1 + MAX_RETRIES)

C28_Witness ==
    /\ pc = "done"
    /\ input.name = PyStr(<<SpaceChar>>)
    /\ outcomes = <<"error", "error", "error">>
    /\ Len(result.step_log.val) = 6

\* The name is a string that is not empty after trimming.
NameValid == input.name.kind = "str" /\ Strip(input.name.val) # <<>>

Skipped(step_log) == \E k \in 1..Len(step_log) : step_log[k].status = "skipped"

\* C29: in every result error is None exactly when the last step_log entry
\* is an orchestrator entry with status ok; and for an input with a valid
\* name no attempt skips enrich, whatever error an earlier attempt left.
C29_ErrorIffLastOk ==
    /\ pc = "done" =>
          (result.error = PyNone
             <=> /\ result.step_log.val # <<>>
                 /\ LastEntry(result.step_log.val).step = "orchestrator"
                 /\ LastEntry(result.step_log.val).status = "ok")
    /\ NameValid => ~Skipped(gstate.step_log) /\ ~Skipped(last_state.step_log)

\* C29 witness: enrich failed in the first attempt, the second attempt's
\* normalize cleared the error and enrich ran and succeeded.
C29_Witness ==
    /\ pc = "done"
    /\ NameValid
    /\ outcomes = <<"error", "ok">>
    /\ result.error = PyNone
    /\ StepsOf(result.step_log.val)
          = <<<<"scenario_processor", "ok">>, <<"orchestrator", "error">>,
              <<"scenario_processor", "ok">>, <<"orchestrator", "ok">>>>

\* C30: a result that has error set (to a text that is not empty) carries
\* no matches and no recommendations, whatever failed and in whichever
\* attempt.
C30_ErroredResultEmpty ==
    (pc = "done" /\ Truthy(result.error)) =>
        /\ result.historicalCases = PyList(<<>>)
        /\ result.recommendations = PyList(<<>>)
====
